---- MODULE Spec2Model ----
(***************************************************************************)
(* A model of gcp_function_main.py: one run of hello_pubsub, the scheduled *)
(* rebalancing job.  Each action is one step of the run; the external      *)
(* collaborators (config file, drive CSV, broker) answer                   *)
(* nondeterministically from small sets.  Money and quantities are exact   *)
(* rationals <<n, d>> with d > 0.                                          *)
(***************************************************************************)
EXTENDS Integers, Sequences, FiniteSets, TLC

VARIABLES
    pc,          \* position of hello_pubsub
    run,         \* "running" | "returned" | "exited" (sys.exit) | "raised" (uncaught exception)
    exitCode,    \* argument of sys.exit, 0 while none was made
    config,      \* keys of the loaded configuration
    calls,       \* collaborator capabilities called so far
    allocStatus, \* how get_target_allocations ended
    rawAlloc,    \* target_allocations before normalisation (line 236), while
                 \* get_target_allocations is the last call hello_pubsub made
    target,      \* target_allocations: ticker -> weight
    targetOrder, \* iteration order of target_allocations
    positions,   \* current_positions: symbol -> [qty, market_value]
    budget,      \* target_investment_amount
    market,      \* "unknown" | "open" | "closed"
    orders,      \* orders: symbol -> [side, value, qty]
    orderSeq,    \* iteration order of orders
    lookups,     \* symbols whose price was looked up by calculate_orders
    lookupFailed,\* symbols whose get_latest_trade or get_asset call raised
    calcStatus,  \* "none" | "returned" | "raised"
    sellSeq,     \* iteration order of sell_orders
    buySeq,      \* iteration order of buy_orders
    sellOrders,  \* sell_orders: symbol -> details
    buyOrders,   \* buy_orders: symbol -> details
    separated,   \* whether separate_and_prioritize_orders returned
    group,       \* "sell" | "buy": the group the executor is in
    idx,         \* index of the current order in its group
    result,      \* symbol -> per-order state
    submitLog,   \* the submit_order calls made, in order
    broker,      \* symbol -> status of the order at the broker
    reported,    \* symbol -> "none" | "success" | "failed": the executor's log entry
    timeout,     \* the timeout handed to wait_for_order_fill
    elapsed,     \* time.time() - start_time of the running poll loop
    latency,     \* time the last status check of the running poll loop took
    polls,       \* status checks made by the running poll loop
    pollErrors,  \* status checks of the running poll loop that raised
    waitReturn   \* "none" | "True" | "False": what wait_for_order_fill returned

vars == << pc, run, exitCode, config, calls, allocStatus, rawAlloc, target, targetOrder,
           positions, budget, market, orders, orderSeq, lookups, lookupFailed,
           calcStatus, sellSeq, buySeq, sellOrders, buyOrders, separated, group, idx,
           result, submitLog, broker, reported, timeout, elapsed, latency, polls, pollErrors, waitReturn >>

(***************************************************************************)
(* Bounds of the model.                                                    *)
(***************************************************************************)
MaxRaw == 2          \* raw 'Ticker Allocation Percent' values are -1..MaxRaw
MaxRows == 2         \* rows of the allocation CSV
MaxTimeout == 1      \* config['timeout'] is 0..MaxTimeout
MaxLatency == 2      \* a status check takes 0..MaxLatency time units

Symbols == {"A", "B", "C"}
Tickers == {"A", "B"}            \* tickers the CSV may name
Holdable == {"B", "C"}           \* symbols the account may hold
Symphonies == {"S1", "S2"}
symphony_to_trade == "S1"
\* what list_positions reports for a held symbol
PositionOf == [s \in Holdable |->
                  IF s = "B" THEN [qty |-> <<1, 1>>, market_value |-> <<10, 1>>]
                             ELSE [qty |-> <<3, 1>>, market_value |-> <<30, 1>>]]
Equities == {10}
CashWeights == {1}
Prices == {4, 8}

(***************************************************************************)
(* Exact rationals.                                                        *)
(***************************************************************************)
Abs(x) == IF x < 0 THEN -x ELSE x

RECURSIVE Gcd(_, _)
Gcd(a, b) == IF b = 0 THEN a ELSE Gcd(b, a % b)

Rat(n, d) ==
    LET g == Gcd(Abs(n), Abs(d))
        s == IF d < 0 THEN -1 ELSE 1
    IN  IF n = 0 THEN <<0, 1>> ELSE << (s * n) \div g, (s * d) \div g >>

RatInt(k) == <<k, 1>>
RatSub(x, y) == Rat(x[1] * y[2] - y[1] * x[2], x[2] * y[2])
RatMul(x, y) == Rat(x[1] * y[1], x[2] * y[2])
RatDiv(x, y) == Rat(x[1] * y[2], x[2] * y[1])
RatNeg(x) == << -x[1], x[2] >>
RatPos(x) == x[1] > 0
RatAdd(x, y) == Rat(x[1] * y[2] + y[1] * x[2], x[2] * y[2])
RatLess(x, y) == x[1] * y[2] < y[1] * x[2]

RECURSIVE RatSum(_, _)
RatSum(f, S) ==
    IF S = {} THEN <<0, 1>>
    ELSE LET s == CHOOSE x \in S : TRUE IN RatAdd(f[s], RatSum(f, S \ {s}))

\* Python's round() on a positive quantity: nearest integer, ties to even.
round(x) ==
    LET q == x[1] \div x[2]
        r == x[1] % x[2]
    IN  IF 2 * r < x[2] THEN q
        ELSE IF 2 * r > x[2] THEN q + 1
        ELSE IF q % 2 = 0 THEN q ELSE q + 1

Range(s) == { s[i] : i \in 1..Len(s) }
Empty == [x \in {} |-> 0]        \* the dict {}

RECURSIVE Perms(_)
Perms(S) ==
    IF S = {} THEN { <<>> }
    ELSE UNION { { <<x>> \o p : p \in Perms(S \ {x}) } : x \in S }

(***************************************************************************)
(* get_target_allocations, lines 201-246.  A CSV is                        *)
(* [columns |-> BOOLEAN, rows |-> Seq([Symphony, Ticker, Percent])];       *)
(* columns says whether the three expected columns are all present.        *)
(***************************************************************************)
\* a cell of 'Ticker Allocation Percent': a number, or text that
\* pd.to_numeric(errors='coerce') turns into NaN
NotNumeric == [numeric |-> FALSE, value |-> 0]
Numeric(v) == [numeric |-> TRUE, value |-> v]
RawValues == { Numeric(v) : v \in (-1)..MaxRaw } \cup {NotNumeric}
Rows == [Symphony : Symphonies, Ticker : Tickers, Percent : RawValues]
CsvFiles == [columns : BOOLEAN, rows : UNION { [1..n -> Rows] : n \in 0..MaxRows }]

\* df[df['Symphony'] == symphony_to_trade]
filtered_df(csv) == SelectSeq(csv.rows, LAMBDA r : r.Symphony = symphony_to_trade)

\* keys of set_index('Ticker')[...].to_dict(), in insertion order
RECURSIVE dict_keys(_)
dict_keys(rows) ==
    IF rows = <<>> THEN <<>>
    ELSE LET init == dict_keys(SubSeq(rows, 1, Len(rows) - 1))
             t == rows[Len(rows)].Ticker
         IN  IF t \in Range(init) THEN init ELSE Append(init, t)

\* value of a key of to_dict(): the last row naming the ticker wins
dict_value(rows, t) ==
    LET last == CHOOSE i \in 1..Len(rows) :
                    /\ rows[i].Ticker = t
                    /\ \A j \in (i + 1)..Len(rows) : rows[j].Ticker # t
    IN  rows[last].Percent.value

RECURSIVE IntSum(_, _)
IntSum(f, S) ==
    IF S = {} THEN 0
    ELSE LET s == CHOOSE x \in S : TRUE IN f[s] + IntSum(f, S \ {s})

\* a faulty normalisation: the percentages returned as they were read
unnormalized_allocations(target_allocations) ==
    [t \in DOMAIN target_allocations |-> RatInt(target_allocations[t])]

\* lines 239-240: percent / total_allocation_percent for every ticker
normalized_allocations(target_allocations) ==
    LET total_allocation_percent == IntSum(target_allocations, DOMAIN target_allocations)
    IN  [t \in DOMAIN target_allocations |->
            Rat(target_allocations[t], total_allocation_percent)]

\* The outcome of get_target_allocations on a downloaded CSV.
\* status: "missing_columns" and "nan" log an error and return {};
\* "zero_division" is the ZeroDivisionError of line 240, which the
\* except KeyError clause does not catch; "returned" is line 246.
target_allocations_of(csv) ==
    LET rows == filtered_df(csv)
        keys == dict_keys(rows)
        raw == [t \in Range(keys) |-> dict_value(rows, t)]
        total == IntSum(raw, DOMAIN raw)
    IN  IF ~csv.columns
            THEN [status |-> "missing_columns", raw |-> Empty, alloc |-> Empty, order |-> <<>>]
        ELSE IF \E i \in 1..Len(rows) : ~rows[i].Percent.numeric
            THEN [status |-> "nan", raw |-> Empty, alloc |-> Empty, order |-> <<>>]
        ELSE IF keys # <<>> /\ total = 0
            THEN [status |-> "zero_division", raw |-> raw, alloc |-> Empty, order |-> <<>>]
        ELSE [status |-> "returned", raw |-> raw, alloc |-> normalized_allocations(raw),
              order |-> keys]

(***************************************************************************)
(* calculate_orders, lines 248-276.                                        *)
(***************************************************************************)
\* lines 254-258: the liquidation pass
sell_off_symbols(target_allocations, current_positions) ==
    DOMAIN current_positions \ DOMAIN target_allocations

\* a faulty liquidation pass: the market value taken for the quantity
liquidation_order_qty_from_value(current_positions, symbol) ==
    [side |-> "sell",
     value |-> current_positions[symbol].market_value,
     qty |-> current_positions[symbol].market_value]

liquidation_order(current_positions, symbol) ==
    [side |-> "sell",
     value |-> current_positions[symbol].market_value,
     qty |-> current_positions[symbol].qty]

\* lines 261-263
desired_value(target_allocations, target_investment_amount, symbol) ==
    RatMul(target_investment_amount, target_allocations[symbol])

current_value(current_positions, symbol) ==
    IF symbol \in DOMAIN current_positions
    THEN current_positions[symbol].market_value ELSE <<0, 1>>

difference(target_allocations, current_positions, target_investment_amount, symbol) ==
    RatSub(desired_value(target_allocations, target_investment_amount, symbol),
           current_value(current_positions, symbol))

\* a faulty rebalance pass: the sides exchanged
rebalance_side_inverted(diff) == IF RatPos(diff) THEN "sell" ELSE "buy"

\* lines 265-268: the side and value of the rebalance order of a target symbol
rebalance_side(diff) == IF RatPos(diff) THEN "buy" ELSE "sell"
rebalance_value(diff) == IF RatPos(diff) THEN diff ELSE RatNeg(diff)

\* lines 272-274: the quantity of a priced order
priced_qty(value, price, fractionable) ==
    LET qty == RatDiv(value, RatInt(price))
    IN  IF fractionable THEN qty ELSE RatInt(round(qty))

\* What the broker answers to get_latest_trade(symbol) and get_asset(symbol):
\* a price and a fractionable flag, or one of the two calls raises.
LookupAnswers ==
    [price : Prices, fractionable : BOOLEAN, raises : {"none"}]
    \cup [price : {0}, fractionable : {FALSE}, raises : {"get_latest_trade", "get_asset"}]

\* The outcome of calculate_orders.  liq is the iteration order of the set
\* sell_off_symbols; answer[s] is what the broker answers for symbol s.
orders_of(target_allocations, order, current_positions, target_investment_amount, liq, answer) ==
    LET diff(s) == difference(target_allocations, current_positions,
                              target_investment_amount, s)
        rebalanced == SelectSeq(order, LAMBDA s : diff(s) # <<0, 1>>)
        seq == liq \o rebalanced
        target_symbols == DOMAIN target_allocations
        fails(s) == s \in target_symbols /\ answer[s].raises # "none"
        failing == { i \in 1..Len(seq) : fails(seq[i]) }
        first == IF failing = {} THEN Len(seq) + 1
                 ELSE CHOOSE i \in failing : \A j \in failing : i <= j
        looked == { seq[i] : i \in { j \in 1..Len(seq) :
                                        j <= first /\ seq[j] \in target_symbols } }
        detail(s) ==
            IF s \in target_symbols
            THEN [side |-> rebalance_side(diff(s)),
                  value |-> rebalance_value(diff(s)),
                  qty |-> priced_qty(rebalance_value(diff(s)), answer[s].price,
                                    answer[s].fractionable)]
            ELSE liquidation_order(current_positions, s)
    IN  IF failing # {}
        THEN [status |-> "raised", orders |-> Empty, seq |-> <<>>, lookups |-> looked,
              failed |-> {seq[first]}]
        ELSE [status |-> "returned", orders |-> [s \in Range(seq) |-> detail(s)],
              seq |-> seq, lookups |-> looked, failed |-> {}]

\* the symbols calculate_orders prices: those with a rebalance order
priced_symbols(target_allocations, current_positions, target_investment_amount) ==
    { s \in DOMAIN target_allocations :
        difference(target_allocations, current_positions,
                   target_investment_amount, s) # <<0, 1>> }

(***************************************************************************)
(* separate_and_prioritize_orders, lines 279-291.                          *)
(***************************************************************************)
sell_orders(ords, seq) == SelectSeq(seq, LAMBDA s : ords[s].side = "sell")
buy_orders(ords, seq) == SelectSeq(seq, LAMBDA s : ords[s].side = "buy")

\* a faulty separation: every order lands in each group
orders_of_any_side(ords, side) == ords

\* lines 289-290: the dict comprehension, the orders of one side with their
\* details
orders_with_side(ords, side) == [ s \in { x \in DOMAIN ords : ords[x].side = side } |-> ords[s] ]

(***************************************************************************)
(* The run: hello_pubsub, lines 321-380.                                   *)
(***************************************************************************)
required_params == {"ALPACA_API_KEY", "ALPACA_SECRET_KEY", "ALPACA_BASE_URL",
                    "symphony_to_trade", "symphony_url", "cash_weight", "timeout"}
ConfigKeys == required_params \cup {"service_account_file"}

NoneOf == [s \in Symbols |-> "none"]

Init ==
    /\ pc = "load_configuration"
    /\ run = "running"
    /\ exitCode = 0
    /\ config = {}
    /\ calls = {}
    /\ allocStatus = "none"
    /\ rawAlloc = Empty
    /\ target = Empty
    /\ targetOrder = <<>>
    /\ positions = Empty
    /\ budget = <<0, 1>>
    /\ market = "unknown"
    /\ orders = Empty
    /\ orderSeq = <<>>
    /\ lookups = {}
    /\ lookupFailed = {}
    /\ calcStatus = "none"
    /\ sellSeq = <<>>
    /\ buySeq = <<>>
    /\ sellOrders = Empty
    /\ buyOrders = Empty
    /\ separated = FALSE
    /\ group = "none"
    /\ idx = 0
    /\ result = NoneOf
    /\ submitLog = <<>>
    /\ broker = NoneOf
    /\ reported = NoneOf
    /\ timeout = 0
    /\ elapsed = 0
    /\ latency = 0
    /\ polls = 0
    /\ pollErrors = 0
    /\ waitReturn = "none"

inputVars == << config, allocStatus, rawAlloc, target, targetOrder, positions, budget, market >>
calcVars == << orders, orderSeq, lookups, lookupFailed, calcStatus >>
execVars == << sellSeq, buySeq, sellOrders, buyOrders, separated, group, idx, result, submitLog, broker,
               reported, timeout >>
waitVars == << elapsed, latency, polls, pollErrors, waitReturn >>

\* sys.exit(1), lines 48 and 65
sys_exit ==
    /\ run' = "exited"
    /\ exitCode' = 1
    /\ pc' = "end"

\* an exception nothing catches leaves hello_pubsub
uncaught ==
    /\ run' = "raised"
    /\ pc' = "end"
    /\ UNCHANGED exitCode

\* lines 33-50 (called at line 337)
load_configuration ==
    /\ pc = "load_configuration"
    /\ \E exists \in BOOLEAN, cfg \in SUBSET ConfigKeys :
          IF ~exists
          THEN sys_exit /\ UNCHANGED config
          ELSE /\ config' = cfg
               /\ pc' = "validate_config"
               /\ UNCHANGED << run, exitCode >>
    /\ UNCHANGED << calls, allocStatus, rawAlloc, target, targetOrder, positions, budget,
                    market,
                    calcVars, execVars, waitVars >>

\* a faulty validation: any() in place of all()
any_param_present(cfg) == \E param \in required_params : param \in cfg

\* line 63: all(param in config for param in required_params)
all_params_present(cfg) == \A param \in required_params : param \in cfg

\* lines 52-65 (called at line 338)
validate_config ==
    /\ pc = "validate_config"
    /\ IF ~all_params_present(config)
       THEN sys_exit
       ELSE pc' = "initialize_alpaca" /\ UNCHANGED << run, exitCode >>
    /\ UNCHANGED << calls, inputVars, calcVars, execVars, waitVars >>

\* lines 340-347: the REST client is built and three keys are read;
\* service_account_file is not among required_params
initialize_alpaca ==
    /\ pc = "initialize_alpaca"
    /\ IF "service_account_file" \notin config
       THEN uncaught
       ELSE pc' = "get_target_allocations" /\ UNCHANGED << run, exitCode >>
    /\ UNCHANGED << calls, inputVars, calcVars, execVars, waitVars >>

\* line 350 (lines 201-246)
get_target_allocations ==
    /\ pc = "get_target_allocations"
    /\ calls' = calls \cup {"drive"}
    /\ \E csv \in CsvFiles, downloaded \in BOOLEAN :
          LET r == IF ~downloaded
                   THEN [status |-> "download_failed", raw |-> Empty, alloc |-> Empty,
                         order |-> <<>>]
                   ELSE target_allocations_of(csv)
          IN  /\ allocStatus' = r.status
              /\ rawAlloc' = r.raw
              /\ target' = r.alloc
              /\ targetOrder' = r.order
              /\ IF r.status \in {"download_failed", "zero_division"}
                 THEN uncaught
                 ELSE pc' = "get_current_positions" /\ UNCHANGED << run, exitCode >>
    /\ UNCHANGED << config, positions, budget, market, calcVars, execVars, waitVars >>

\* line 354 (lines 159-170)
get_current_positions ==
    /\ pc = "get_current_positions"
    /\ calls' = calls \cup {"list_positions"}
    /\ \E held \in SUBSET Holdable, raises \in BOOLEAN :
          IF raises
          THEN uncaught /\ UNCHANGED positions
          ELSE /\ positions' = [s \in held |-> PositionOf[s]]
               /\ pc' = "calculate_target_investment"
               /\ UNCHANGED << run, exitCode >>
    /\ rawAlloc' = Empty
    /\ UNCHANGED << config, allocStatus, target, targetOrder, budget, market,
                    calcVars, execVars, waitVars >>

\* line 358 (lines 79-91)
calculate_target_investment ==
    /\ pc = "calculate_target_investment"
    /\ calls' = calls \cup {"get_account"}
    /\ \E equity \in Equities, cash_weight \in CashWeights, raises \in BOOLEAN :
          IF raises
          THEN uncaught /\ UNCHANGED budget
          ELSE /\ budget' = RatInt(equity * cash_weight)
               /\ pc' = "is_market_open"
               /\ UNCHANGED << run, exitCode >>
    /\ UNCHANGED << config, allocStatus, rawAlloc, target, targetOrder, positions, market,
                    calcVars, execVars, waitVars >>

\* a faulty gate: the closed market does not end the run
gate_never_ends_run(is_open) == FALSE

\* line 363: `if not is_market_open(alpaca_api)` ends the run
gate_ends_run(is_open) == ~is_open

\* lines 363-366 (lines 93-104): the market-open gate
is_market_open ==
    /\ pc = "is_market_open"
    /\ calls' = calls \cup {"get_clock"}
    /\ \E is_open \in BOOLEAN, raises \in BOOLEAN :
          IF raises
          THEN uncaught /\ UNCHANGED market
          ELSE /\ market' = IF is_open THEN "open" ELSE "closed"
               /\ IF gate_ends_run(is_open)
                  THEN /\ run' = "returned"
                       /\ pc' = "end"
                       /\ UNCHANGED exitCode
                  ELSE /\ pc' = "calculate_orders"
                       /\ UNCHANGED << run, exitCode >>
    /\ UNCHANGED << config, allocStatus, rawAlloc, target, targetOrder, positions, budget,
                    calcVars, execVars, waitVars >>

\* line 369 (lines 248-276)
calculate_orders ==
    /\ pc = "calculate_orders"
    /\ LET priced == priced_symbols(target, positions, budget)
       IN  \E liq \in Perms(sell_off_symbols(target, positions)),
              answer \in [priced -> LookupAnswers] :
              LET r == orders_of(target, targetOrder, positions, budget, liq, answer)
              IN  /\ calcStatus' = r.status
                  /\ orders' = r.orders
                  /\ orderSeq' = r.seq
                  /\ lookups' = r.lookups
                  /\ lookupFailed' = r.failed
                  /\ calls' = calls \cup (IF r.lookups = {} THEN {} ELSE {"get_latest_trade"})
                  /\ IF r.status = "raised"
                     THEN uncaught
                     ELSE pc' = "separate_and_prioritize_orders"
                          /\ UNCHANGED << run, exitCode >>
    /\ UNCHANGED << inputVars, execVars, waitVars >>

\* line 372 (lines 279-291)
separate_and_prioritize_orders ==
    /\ pc = "separate_and_prioritize_orders"
    /\ sellSeq' = sell_orders(orders, orderSeq)
    /\ buySeq' = buy_orders(orders, orderSeq)
    /\ sellOrders' = orders_with_side(orders, "sell")
    /\ buyOrders' = orders_with_side(orders, "buy")
    /\ separated' = TRUE
    /\ pc' = "execute_prioritized_orders"
    /\ UNCHANGED << run, exitCode, calls, inputVars, calcVars, group, idx, result,
                    submitLog, broker, reported, timeout, waitVars >>

(***************************************************************************)
(* execute_prioritized_orders, lines 293-316.                              *)
(***************************************************************************)
\* a faulty order of the groups: buys first
execution_order_buys_first == <<"buy", "sell">>

\* line 304: the groups in the order the executor takes them
execution_order == <<"sell", "buy">>

\* the orders of the group the executor is in
group_orders == IF group = "sell" THEN sellSeq ELSE buySeq
\* the order the executor is at
symbol_at == group_orders[idx]
\* line 305: the details of that order, read from its group
details_at == (IF group = "sell" THEN sellOrders ELSE buyOrders)[symbol_at]

\* line 375: int(config['timeout']) is read and the executor entered
execute_prioritized_orders ==
    /\ pc = "execute_prioritized_orders"
    /\ \E t \in 0..MaxTimeout : timeout' = t
    /\ group' = execution_order[1]
    /\ idx' = 1
    /\ pc' = "for_order"
    /\ UNCHANGED << run, exitCode, calls, inputVars, calcVars, sellSeq, buySeq, sellOrders,
                    buyOrders, separated,
                    result, submitLog, broker, reported, waitVars >>

\* a faulty executor: an order of quantity 0 is let through
qty_not_negative(qty) == qty[1] >= 0

\* line 307: an order is submitted only if its quantity is > 0
qty_meaningful(qty) == RatPos(qty)

\* lines 304-307: the two loop headers and the quantity guard
for_order ==
    /\ pc = "for_order"
    /\ IF idx > Len(group_orders)
       THEN IF group = execution_order[1]
            THEN /\ group' = execution_order[2]
                 /\ idx' = 1
                 /\ pc' = "for_order"
                 /\ UNCHANGED result
            ELSE /\ pc' = "rebalancing_complete"
                 /\ UNCHANGED << group, idx, result >>
       ELSE IF qty_meaningful(details_at.qty)
            THEN /\ pc' = "create_and_submit_order"
                 /\ UNCHANGED << group, idx, result >>
            ELSE /\ result' = [result EXCEPT ![symbol_at] = "skipped"]
                 /\ idx' = idx + 1
                 /\ pc' = "for_order"
                 /\ UNCHANGED group
    /\ UNCHANGED << run, exitCode, calls, inputVars, calcVars, sellSeq, buySeq, sellOrders,
                    buyOrders, separated,
                    submitLog, broker, reported, timeout, waitVars >>

\* a faulty executor: a failed submission is made again
retry_after_failed_submission == "create_and_submit_order"

\* a faulty executor: a failed submission ends the batch
abort_after_failed_submission == "rebalancing_complete"

\* where the executor goes when create_and_submit_order returned None:
\* `client_order_id and ...` is falsy, wait_for_order_fill is not called
after_failed_submission == "log_result"

\* a faulty executor: an accepted order is not waited for
skip_wait_after_accepted_submission == "log_result"

\* where the executor goes when create_and_submit_order returned an id:
\* line 312 calls wait_for_order_fill before anything else
after_accepted_submission == "wait_for_order_fill"

\* line 311 (lines 138-157): one submit_order call; an exception is logged
\* and None returned
create_and_submit_order ==
    /\ pc = "create_and_submit_order"
    /\ calls' = calls \cup {"submit_order"}
    /\ submitLog' = Append(submitLog, [symbol |-> symbol_at, side |-> group,
                                       qty |-> details_at.qty])
    /\ \E accepted \in BOOLEAN :
          IF accepted
          THEN /\ result' = [result EXCEPT ![symbol_at] = "submitted"]
               /\ broker' = [broker EXCEPT ![symbol_at] = "new"]
               /\ pc' = after_accepted_submission
          ELSE /\ result' = [result EXCEPT ![symbol_at] = "submission_failed"]
               /\ pc' = after_failed_submission
               /\ UNCHANGED broker
    \* lines 118-122 of a call of wait_for_order_fill
    /\ elapsed' = 0
    /\ latency' = 0
    /\ polls' = 0
    /\ pollErrors' = 0
    /\ waitReturn' = "none"
    /\ UNCHANGED << run, exitCode, inputVars, calcVars, sellSeq, buySeq, sellOrders,
                    buyOrders, separated,
                    group, idx, reported, timeout >>

(***************************************************************************)
(* wait_for_order_fill, lines 106-136.                                     *)
(***************************************************************************)
retry_interval == 3
OpenStatuses == {"new"}
TerminalStatuses == {"filled", "cancelled", "expired"}

\* a faulty loop condition: one more iteration at elapsed = timeout
keep_polling_inclusive(e, t) == e <= t

\* line 123: the loop condition
keep_polling(e, t) == e < t

\* line 123, and lines 135-136 when the condition is false
\* a faulty poll loop: the loop is entered again when its time is up
poll_again_after_timeout == "wait_for_order_fill"

\* line 136: when the loop condition fails the call returns False
after_timeout == "log_result"

wait_for_order_fill ==
    /\ pc = "wait_for_order_fill"
    /\ IF keep_polling(elapsed, timeout)
       THEN /\ pc' = "get_order_by_client_order_id"
            /\ UNCHANGED << result, waitReturn >>
       ELSE /\ waitReturn' = "False"
            /\ result' = [result EXCEPT ![symbol_at] = "timeout"]
            /\ pc' = after_timeout
    /\ UNCHANGED << run, exitCode, calls, inputVars, calcVars, sellSeq, buySeq, sellOrders,
                    buyOrders, separated,
                    group, idx, submitLog, broker, reported, timeout, elapsed, latency,
                    polls, pollErrors >>

\* a faulty poll loop: a status check that raises ends the loop
return_after_check_error == "log_result"

\* where the poll loop goes when the status check raised: the except
\* clause of lines 132-133 logs and falls through to sleep(3)
after_check_error == "sleep"

\* a faulty poll loop: a cancelled order is polled on
failed_statuses_expired_only == {"expired"}

\* line 129: the statuses on which the poll loop returns False
failed_statuses == {"cancelled", "expired"}

\* lines 124-133: one status check; it takes 0..MaxLatency time units
get_order_by_client_order_id ==
    /\ pc = "get_order_by_client_order_id"
    /\ calls' = calls \cup {"get_order_by_client_order_id"}
    /\ polls' = polls + 1
    /\ \E d \in 0..MaxLatency : latency' = d /\ elapsed' = elapsed + d
    /\ \E raises \in BOOLEAN, status \in OpenStatuses \cup TerminalStatuses :
          IF raises
          THEN /\ pollErrors' = pollErrors + 1
               /\ pc' = after_check_error
               /\ UNCHANGED << result, broker, waitReturn >>
          ELSE /\ broker' = [broker EXCEPT ![symbol_at] = status]
               /\ UNCHANGED pollErrors
               /\ IF status = "filled"
                  THEN /\ waitReturn' = "True"
                       /\ result' = [result EXCEPT ![symbol_at] = "filled"]
                       /\ pc' = "log_result"
                  ELSE IF status \in failed_statuses
                  THEN /\ waitReturn' = "False"
                       /\ result' = [result EXCEPT ![symbol_at] = status]
                       /\ pc' = "log_result"
                  ELSE /\ pc' = "sleep"
                       /\ UNCHANGED << result, waitReturn >>
    /\ UNCHANGED << run, exitCode, inputVars, calcVars, sellSeq, buySeq, sellOrders,
                    buyOrders, separated,
                    group, idx, submitLog, reported, timeout >>

\* line 134: sleep(3)
sleep ==
    /\ pc = "sleep"
    /\ elapsed' = elapsed + retry_interval
    /\ pc' = "wait_for_order_fill"
    /\ UNCHANGED << run, exitCode, calls, inputVars, calcVars, execVars, latency,
                    polls, pollErrors, waitReturn >>

\* lines 312-316: `client_order_id and not wait_for_order_fill(...)` chooses
\* between the error entry and the 'Successfully executed' entry
log_result ==
    /\ pc = "log_result"
    /\ LET client_order_id == result[symbol_at] # "submission_failed"
       IN  reported' = [reported EXCEPT ![symbol_at] =
                           IF client_order_id /\ waitReturn # "True"
                           THEN "failed" ELSE "success"]
    /\ idx' = idx + 1
    /\ pc' = "for_order"
    \* the call of wait_for_order_fill is over and its locals are gone
    /\ elapsed' = 0
    /\ latency' = 0
    /\ polls' = 0
    /\ pollErrors' = 0
    /\ waitReturn' = "none"
    /\ UNCHANGED << run, exitCode, calls, inputVars, calcVars, sellSeq, buySeq, sellOrders,
                    buyOrders, separated,
                    group, result, submitLog, broker, timeout >>

\* lines 377-380
rebalancing_complete ==
    /\ pc = "rebalancing_complete"
    /\ run' = "returned"
    /\ pc' = "end"
    /\ UNCHANGED << exitCode, calls, inputVars, calcVars, execVars, waitVars >>

Next ==
    \/ load_configuration
    \/ validate_config
    \/ initialize_alpaca
    \/ get_target_allocations
    \/ get_current_positions
    \/ calculate_target_investment
    \/ is_market_open
    \/ calculate_orders
    \/ separate_and_prioritize_orders
    \/ execute_prioritized_orders
    \/ for_order
    \/ create_and_submit_order
    \/ wait_for_order_fill
    \/ get_order_by_client_order_id
    \/ sleep
    \/ log_result
    \/ rebalancing_complete

Spec == Init /\ [][Next]_vars

(***************************************************************************)
(* wait_for_order_fill on its own: one call, entered right after the       *)
(* submission of a single buy order was accepted, for timeouts             *)
(* 0..MaxWaitTimeout.                                                      *)
(***************************************************************************)
MaxWaitTimeout == 7

InitWait ==
    LET alloc == [t \in {"A"} |-> <<1, 1>>]
        answer == [t \in {"A"} |-> [price |-> 4, fractionable |-> TRUE, raises |-> "none"]]
        r == orders_of(alloc, <<"A">>, Empty, <<10, 1>>, <<>>, answer)
    IN  /\ pc = "wait_for_order_fill"
        /\ run = "running"
        /\ exitCode = 0
        /\ config = ConfigKeys
        /\ calls = {"drive", "list_positions", "get_account", "get_clock",
                    "get_latest_trade", "submit_order"}
        /\ allocStatus = "returned"
        /\ rawAlloc = Empty
        /\ target = alloc
        /\ targetOrder = <<"A">>
        /\ positions = Empty
        /\ budget = <<10, 1>>
        /\ market = "open"
        /\ orders = r.orders
        /\ orderSeq = r.seq
        /\ lookups = r.lookups
        /\ lookupFailed = {}
        /\ calcStatus = r.status
        /\ sellSeq = sell_orders(r.orders, r.seq)
        /\ buySeq = buy_orders(r.orders, r.seq)
        /\ sellOrders = orders_with_side(r.orders, "sell")
        /\ buyOrders = orders_with_side(r.orders, "buy")
        /\ separated = TRUE
        /\ group = "buy"
        /\ idx = 1
        /\ result = [NoneOf EXCEPT !["A"] = "submitted"]
        /\ submitLog = << [symbol |-> "A", side |-> "buy", qty |-> r.orders["A"].qty] >>
        /\ broker = [NoneOf EXCEPT !["A"] = "new"]
        /\ reported = NoneOf
        /\ timeout \in 0..MaxWaitTimeout
        /\ elapsed = 0
        /\ latency = 0
        /\ polls = 0
        /\ pollErrors = 0
        /\ waitReturn = "none"

NextWait ==
    \/ wait_for_order_fill
    \/ get_order_by_client_order_id
    \/ sleep

SpecWait == InitWait /\ [][NextWait]_vars

(***************************************************************************)
(* The executor on its own, lines 371-380: entered with the orders         *)
(* calculate_orders returned for a target of A alone while B and C are     *)
(* held (two liquidation sells and one buy), under a clock that advances   *)
(* and collaborators that answer: every call returns or raises, so a step  *)
(* that can be taken is taken.                                             *)
(***************************************************************************)
InitExec ==
    LET alloc == [t \in {"A"} |-> <<1, 1>>]
        held == [s \in Holdable |-> PositionOf[s]]
    IN  \E liq \in Perms(Holdable),
           answer \in [{"A"} -> { a \in LookupAnswers : a.raises = "none" }] :
           LET r == orders_of(alloc, <<"A">>, held, <<10, 1>>, liq, answer)
           IN  /\ pc = "separate_and_prioritize_orders"
               /\ run = "running"
               /\ exitCode = 0
               /\ config = ConfigKeys
               /\ calls = {"drive", "list_positions", "get_account", "get_clock",
                           "get_latest_trade"}
               /\ allocStatus = "returned"
               /\ rawAlloc = Empty
               /\ target = alloc
               /\ targetOrder = <<"A">>
               /\ positions = held
               /\ budget = <<10, 1>>
               /\ market = "open"
               /\ orders = r.orders
               /\ orderSeq = r.seq
               /\ lookups = r.lookups
               /\ lookupFailed = {}
               /\ calcStatus = r.status
               /\ sellSeq = <<>>
               /\ buySeq = <<>>
               /\ sellOrders = Empty
               /\ buyOrders = Empty
               /\ separated = FALSE
               /\ group = "none"
               /\ idx = 0
               /\ result = NoneOf
               /\ submitLog = <<>>
               /\ broker = NoneOf
               /\ reported = NoneOf
               /\ timeout = 0
               /\ elapsed = 0
               /\ latency = 0
               /\ polls = 0
               /\ pollErrors = 0
               /\ waitReturn = "none"

NextExec ==
    \/ separate_and_prioritize_orders
    \/ execute_prioritized_orders
    \/ for_order
    \/ create_and_submit_order
    \/ wait_for_order_fill
    \/ get_order_by_client_order_id
    \/ sleep
    \/ log_result
    \/ rebalancing_complete

SpecExec == InitExec /\ [][NextExec]_vars /\ WF_vars(NextExec)


(***************************************************************************)
(* Properties.                                                             *)
(***************************************************************************)
Resolved == {"filled", "cancelled", "expired", "timeout", "submission_failed"}
Polling == {"wait_for_order_fill", "get_order_by_client_order_id", "sleep"}

\* the positions of submitLog at which submit_order was called for symbol s
SubmissionsOf(s) == { i \in 1..Len(submitLog) : submitLog[i].symbol = s }
BuySubmissions == { i \in 1..Len(submitLog) : submitLog[i].side = "buy" }
\* the executor has left its loops and the run has returned
Executed == separated /\ run = "returned"

\* C1 as stated: once a buy order has been submitted, every sell order of
\* the run has been submitted and has resolved (filled, cancelled, expired,
\* timeout or submission_failed).
C1_EverySellSubmittedAndResolved ==
    \A i \in BuySubmissions : \A s \in Range(sellSeq) :
        /\ result[s] \in Resolved
        /\ \E j \in SubmissionsOf(s) : j < i

\* C1, amended: once a buy order has been submitted, every sell order with
\* quantity > 0 has been submitted earlier and has resolved, and every sell
\* order with quantity <= 0 has been skipped without a submission.
C1_SellBeforeBuy ==
    \A i \in BuySubmissions : \A s \in Range(sellSeq) :
        IF qty_meaningful(orders[s].qty)
        THEN /\ result[s] \in Resolved
             /\ \E j \in SubmissionsOf(s) : j < i /\ submitLog[j].side = "sell"
        ELSE /\ result[s] = "skipped"
             /\ SubmissionsOf(s) = {}

\* C1 witness: a buy was submitted after two sells, one filled and one that
\* timed out.
C1_Witness ==
    /\ BuySubmissions # {}
    /\ \E s1, s2 \in Range(sellSeq) : result[s1] = "filled" /\ result[s2] = "timeout"

\* C2: when the market-open gate reports the market closed, the run has
\* returned normally with no order computed, none submitted and no status
\* polled.
C2_MarketClosedNoOrders ==
    market = "closed" =>
        /\ run = "returned"
        /\ exitCode = 0
        /\ calcStatus = "none"
        /\ orders = Empty
        /\ ~separated
        /\ submitLog = <<>>
        /\ calls \cap {"get_latest_trade", "submit_order",
                       "get_order_by_client_order_id"} = {}

\* C2 witness: the market is closed while the target and the held
\* positions differ, so that orders would have been due.
C2_Witness ==
    /\ market = "closed"
    /\ target # Empty
    /\ sell_off_symbols(target, positions) # {}

\* C3: when the allocation fetch fails data-integrity validation (missing
\* column, non-numeric value, zero total), no order is submitted in the run.
C3_NoOrderOnInvalidTarget ==
    allocStatus \in {"missing_columns", "nan", "zero_division"} => submitLog = <<>>

\* C4: a failed submission resolves to submission_failed without any status
\* polling (the poll loop runs only for an accepted submission) and does not
\* end the batch: when the executor is done, every order with quantity > 0
\* has been submitted exactly once.
C4_FailedSubmissionContinues ==
    /\ pc \in Polling => result[symbol_at] = "submitted"
    /\ (pc = "log_result" /\ result[symbol_at] = "submission_failed") => polls = 0
    /\ (\E s \in Symbols : result[s] = "submission_failed") => run # "raised"
    /\ Executed =>
          \A s \in Range(orderSeq) :
              qty_meaningful(orders[s].qty) => Cardinality(SubmissionsOf(s)) = 1

\* C4 witness: the executor is done, a sell submission failed, and a later
\* sell and a buy were still submitted.
C4_Witness ==
    /\ Executed
    /\ \E i, j, k \in 1..Len(submitLog) :
          /\ i < j /\ j < k
          /\ result[submitLog[i].symbol] = "submission_failed"
          /\ submitLog[j].side = "sell"
          /\ submitLog[k].side = "buy"

\* C5: a failed price or fractionability lookup for one symbol aborts only
\* that symbol's order: calculate_orders still returns the orders of every
\* other symbol and the run goes on to execute them.
C5_LookupFailureAbortsOneSymbol ==
    lookupFailed # {} =>
        /\ calcStatus = "returned"
        /\ run # "raised"
        /\ \A s \in (sell_off_symbols(target, positions)
                     \cup priced_symbols(target, positions, budget)) \ lookupFailed :
              s \in DOMAIN orders

\* the poll loop of the current order has returned
WaitReturned == pc = "log_result" /\ waitReturn # "none"
TimedOut == WaitReturned /\ result[symbol_at] = "timeout"

\* C6 as stated: an order that resolves to timeout does so after at least
\* timeout and at most timeout + one poll interval.
C6_ElapsedWithinOneInterval ==
    TimedOut => elapsed >= timeout /\ elapsed <= timeout + retry_interval

\* C6, amended: an order that resolves to timeout does so after at least
\* timeout, and the last loop iteration (one status check and one sleep of
\* 3) began before timeout: elapsed < timeout + 3 + the time the last status
\* check took; when no check was made (timeout 0) no time has passed.
C6_ElapsedWithinOneIteration ==
    TimedOut =>
        /\ waitReturn = "False"
        /\ elapsed >= timeout
        /\ IF polls = 0 THEN elapsed = 0
           ELSE elapsed - retry_interval - latency < timeout

\* C6 witness: a timeout that is no multiple of the interval, reached after
\* at least two status checks.
C6_Witness ==
    /\ TimedOut
    /\ timeout % retry_interval # 0
    /\ polls >= 2

\* C7: a status check that raises does not end the poll loop.  The loop is
\* left only by a timeout (not before timeout has elapsed, with False) or by
\* a check that answered filled (True), cancelled or expired (False); no
\* exception escapes.
C7_CheckErrorKeepsPolling ==
    /\ (pc \in Polling \/ pc = "log_result") => run = "running"
    /\ (pc = "log_result" /\ pollErrors > 0) =>
          \/ /\ result[symbol_at] = "timeout"
             /\ waitReturn = "False"
             /\ elapsed >= timeout
          \/ /\ result[symbol_at] \in TerminalStatuses
             /\ polls > pollErrors
             /\ waitReturn = IF result[symbol_at] = "filled" THEN "True" ELSE "False"
    /\ (pc = "log_result" /\ polls > 0 /\ polls = pollErrors) =>
          result[symbol_at] = "timeout"

\* C7 witness: two status checks raised and a later one observed filled.
C7_Witness ==
    /\ pc = "log_result"
    /\ pollErrors >= 2
    /\ result[symbol_at] = "filled"
    /\ waitReturn = "True"

\* C8: on an all-zero input or a filter that selects no row,
\* get_target_allocations reports a validation failure: it neither divides
\* by zero nor returns an empty target as if it were valid.
C8_ZeroOrEmptyInputReported ==
    /\ allocStatus # "zero_division"
    /\ allocStatus = "returned" => target # Empty

\* C9: with a required configuration key missing, the run has ended in
\* sys.exit with a nonzero status before any drive or broker call, and no
\* order was computed or submitted.
C9_MissingKeyIsFatal ==
    (pc \notin {"load_configuration", "validate_config"}
        /\ ~(required_params \subseteq config)) =>
        /\ run = "exited"
        /\ exitCode # 0
        /\ calls = {}
        /\ calcStatus = "none"
        /\ submitLog = <<>>

\* C9 witness: a configuration that lacks exactly one required key was
\* loaded and the run has ended.
C9_Witness ==
    /\ pc = "end"
    /\ Cardinality(required_params \ config) = 1
    /\ "service_account_file" \in config

\* C10: for every symbol held but absent from the target, the orders that
\* calculate_orders returns hold exactly one order for it: side sell, value
\* the position's market value, quantity the held quantity, and no price
\* was looked up for it.
C10_LiquidationOrder ==
    /\ lookups \cap sell_off_symbols(target, positions) = {}
    /\ calcStatus = "returned" =>
          \A s \in sell_off_symbols(target, positions) :
              /\ Cardinality({ i \in 1..Len(orderSeq) : orderSeq[i] = s }) = 1
              /\ s \in DOMAIN orders
              /\ orders[s] = [side |-> "sell",
                              value |-> positions[s].market_value,
                              qty |-> positions[s].qty]

\* C10 witness: both held symbols are absent from a target whose symbol was
\* priced.
C10_Witness ==
    /\ calcStatus = "returned"
    /\ Cardinality(sell_off_symbols(target, positions)) = 2
    /\ lookups # {}

\* the number of orders the returned orders hold for symbol s
OrdersFor(s) == Cardinality({ i \in 1..Len(orderSeq) : orderSeq[i] = s })

\* C11: for every target symbol, with desired_value = budget * weight and
\* current_value = the held market value (0 when not held), the returned
\* orders hold no order when the two are equal, exactly one buy of value
\* desired_value - current_value when desired_value is the greater, and
\* exactly one sell of value current_value - desired_value when it is the
\* smaller.  Stated of the state calculate_orders returns into.
C11_RebalanceOrder ==
    (pc = "separate_and_prioritize_orders" /\ calcStatus = "returned") =>
        \A s \in DOMAIN target :
            LET desired == RatMul(budget, target[s])
                current == IF s \in DOMAIN positions
                           THEN positions[s].market_value ELSE <<0, 1>>
            IN  IF RatLess(current, desired)
                THEN /\ OrdersFor(s) = 1
                     /\ orders[s].side = "buy"
                     /\ RatAdd(orders[s].value, current) = desired
                ELSE IF RatLess(desired, current)
                THEN /\ OrdersFor(s) = 1
                     /\ orders[s].side = "sell"
                     /\ RatAdd(orders[s].value, desired) = current
                ELSE /\ OrdersFor(s) = 0
                     /\ s \notin DOMAIN orders

\* C11 witness: of two target symbols one is bought and the held one is
\* sold, each for a value that is no whole number.
C11_Witness ==
    /\ pc = "separate_and_prioritize_orders"
    /\ calcStatus = "returned"
    /\ \E s1, s2 \in DOMAIN target \cap DOMAIN orders :
          /\ orders[s1].side = "buy" /\ orders[s1].value[2] # 1
          /\ orders[s2].side = "sell" /\ orders[s2].value[2] # 1

\* C12: the separation returns (sell_orders, buy_orders) that partition the
\* orders: every order is in exactly one group with its details unchanged,
\* no group holds anything else, every order of sell_orders has side
\* "sell" and every order of buy_orders has side "buy".  Stated of the
\* state the separation returns into.
C12_GroupsPartitionOrders ==
    (pc = "execute_prioritized_orders" /\ separated) =>
        /\ DOMAIN sellOrders \cup DOMAIN buyOrders = DOMAIN orders
        /\ DOMAIN sellOrders \cap DOMAIN buyOrders = {}
        /\ \A s \in DOMAIN sellOrders : sellOrders[s] = orders[s] /\ sellOrders[s].side = "sell"
        /\ \A s \in DOMAIN buyOrders : buyOrders[s] = orders[s] /\ buyOrders[s].side = "buy"
        /\ Range(sellSeq) = DOMAIN sellOrders /\ Len(sellSeq) = Cardinality(DOMAIN sellOrders)
        /\ Range(buySeq) = DOMAIN buyOrders /\ Len(buySeq) = Cardinality(DOMAIN buyOrders)

\* C12 witness: a mixed order set of three orders was separated into two
\* sells and one buy.
C12_Witness ==
    /\ pc = "execute_prioritized_orders"
    /\ separated
    /\ Cardinality(DOMAIN orders) = 3
    /\ Cardinality(DOMAIN sellOrders) = 2
    /\ Cardinality(DOMAIN buyOrders) = 1

\* get_target_allocations has just returned a non-empty target
TargetReturned ==
    pc = "get_current_positions" /\ allocStatus = "returned" /\ target # Empty

InFlight == { i \in 1..Len(submitLog) : result[submitLog[i].symbol] = "submitted" }

\* C14: execution is strictly sequential within and across the groups: at
\* most one order is submitted and being polled at any moment, it is the
\* one submitted last, and the next order is looked at or submitted only
\* when every order submitted before has resolved.
C14_OneOrderInFlight ==
    /\ Cardinality(InFlight) <= 1
    /\ \A i \in InFlight : i = Len(submitLog) /\ submitLog[i].symbol = symbol_at
    /\ InFlight # {} => pc \in Polling
    /\ pc \in {"for_order", "create_and_submit_order"} =>
          \A i \in 1..Len(submitLog) : result[submitLog[i].symbol] \in Resolved

\* C14 witness: the second sell is being polled after the first sell
\* resolved by timeout.
C14_Witness ==
    /\ pc = "sleep"
    /\ Len(submitLog) = 2
    /\ submitLog[1].side = "sell" /\ submitLog[2].side = "sell"
    /\ result[submitLog[1].symbol] = "timeout"
    /\ InFlight = {2}

\* C15: wait_for_order_fill stops polling at the first status check that
\* observes filled, cancelled or expired: while it polls, no check has
\* observed one of them; it returns True exactly when the status observed is
\* filled and False when it is cancelled or expired.
C15_StopsAtTerminalStatus ==
    /\ pc \in Polling => broker[symbol_at] \in OpenStatuses
    /\ WaitReturned =>
          /\ waitReturn = "True" <=> broker[symbol_at] = "filled"
          /\ broker[symbol_at] \in {"cancelled", "expired"} => waitReturn = "False"
          /\ broker[symbol_at] \in TerminalStatuses => result[symbol_at] = broker[symbol_at]

\* C15 witness: the third status check observed cancelled and the loop
\* returned False.
C15_Witness ==
    /\ WaitReturned
    /\ polls = 3
    /\ pollErrors = 0
    /\ broker[symbol_at] = "cancelled"
    /\ waitReturn = "False"

\* C16: no order with quantity <= 0 is ever submitted: every submit_order
\* call carries a quantity > 0, and an order whose quantity is <= 0 (a
\* non-fractionable order rounded to 0 among them) is skipped without a
\* submit_order call.
C16_NoSubmissionWithoutQuantity ==
    /\ \A i \in 1..Len(submitLog) : RatLess(<<0, 1>>, submitLog[i].qty)
    /\ \A s \in DOMAIN orders :
          /\ result[s] = "skipped" =>
                ~RatLess(<<0, 1>>, orders[s].qty) /\ SubmissionsOf(s) = {}
          /\ (Executed /\ ~RatLess(<<0, 1>>, orders[s].qty)) => result[s] = "skipped"

\* C16 witness: the executor is done, an order whose quantity was rounded to
\* 0 was skipped and another order was submitted.
C16_Witness ==
    /\ Executed
    /\ submitLog # <<>>
    /\ \E s \in DOMAIN orders :
          /\ orders[s].qty = <<0, 1>>
          /\ orders[s].value # <<0, 1>>
          /\ result[s] = "skipped"

\* C17: within one run submit_order is called at most once per symbol:
\* calculate_orders returns at most one order per symbol and the executor
\* makes no second submission, whatever the first one came to.
C17_OneSubmissionPerSymbol ==
    /\ \A s \in Symbols : Cardinality(SubmissionsOf(s)) <= 1
    /\ \A s \in DOMAIN orders : OrdersFor(s) = 1
    /\ \A i \in 1..Len(submitLog) : submitLog[i].symbol \in DOMAIN orders

\* C17 witness: the executor is done with three orders, one whose
\* submission failed, one that timed out and one that expired, each
\* submitted once.
C17_Witness ==
    /\ Executed
    /\ Len(submitLog) = 3
    /\ \E s1, s2, s3 \in Symbols :
          /\ result[s1] = "submission_failed"
          /\ result[s2] = "timeout"
          /\ result[s3] = "expired"

\* C18: every run terminates when the clock advances and every call of a
\* collaborator returns or raises: hello_pubsub reaches its end, so every
\* poll loop that was entered has been left and the executor has reached
\* the end of both groups.
C18_RunTerminates == <>(pc = "end")

\* C18 witness: the run has ended after a poll loop that made a status
\* check was left by timeout, and a later order was executed.
C18_Witness ==
    /\ pc = "end"
    /\ Executed
    /\ "get_order_by_client_order_id" \in calls
    /\ \E i \in 1..Len(submitLog) :
          /\ i < Len(submitLog)
          /\ result[submitLog[i].symbol] = "timeout"

\* C19: 'Successfully executed' is reported for an order only if the order
\* was submitted successfully and a status check observed it filled: an
\* order whose submission failed, that was cancelled, that expired or that
\* timed out is never reported as a success.
C19_SuccessOnlyWhenFilled ==
    \A s \in Symbols :
        reported[s] = "success" =>
            /\ result[s] = "filled"
            /\ broker[s] = "filled"
            /\ SubmissionsOf(s) # {}

\* C20: when a buy order is submitted, no sell order submitted earlier is
\* still open at the broker: every sell the broker accepted has been
\* observed filled, cancelled or expired, also when its polling ended by
\* timeout.
C20_NoSellOpenAtBuy ==
    \A i \in BuySubmissions : \A j \in 1..Len(submitLog) :
        (j < i /\ submitLog[j].side = "sell"
               /\ result[submitLog[j].symbol] # "submission_failed") =>
            broker[submitLog[j].symbol] \in TerminalStatuses

====
